---------------------------- MODULE Spec2Model ----------------------------
(***************************************************************************)
(* A model of verify.js (face_verifier): the command line entry point      *)
(* main, the pipeline runVerification, the crop geometry                   *)
(* calculateZoomedOutBox and the report built by                           *)
(* generateVerificationReport.                                             *)
(*                                                                         *)
(* Three specifications share the variables:                               *)
(*   Spec        two processes running main() against one clock and one    *)
(*               verification_reports directory;                           *)
(*   SpecDecide  the decision arithmetic (isMatch, confidence) applied to  *)
(*               every distance and threshold of a small float format;     *)
(*   SpecGeom    calculateZoomedOutBox applied to every box, zoom factor   *)
(*               and image size of a bounded set.                          *)
(***************************************************************************)
EXTENDS Integers, Sequences, FiniteSets, TLC

VARIABLES
    now,        \* the wall clock, in milliseconds (Date.now / new Date)
    dirs,       \* the directories that exist under CONFIG.baseOutputDir
    files,      \* path -> sequence of the writes made to it (last = content)
    pc,         \* per process: the statement of main/runVerification it is at
    outputDir,  \* per process: main's outputDir
    mem,        \* per process: the locals of runVerification
    trace,      \* per process: the external calls and throws made so far
    stdout,     \* per process: the lines written by console.log
    stderr,     \* per process: the lines written by console.error
    dIn,        \* SpecDecide: faceDistance and threshold
    dOut,       \* SpecDecide: isMatch and the result block
    gIn,        \* SpecGeom: box, zoomFactor, imageWidth, imageHeight
    gOut        \* SpecGeom: the returned box

pipeVars == <<now, dirs, files, pc, outputDir, mem, trace, stdout, stderr>>
decideVars == <<dIn, dOut>>
geomVars == <<gIn, gOut>>
otherVars == <<dIn, dOut, gIn, gOut>>
vars == <<now, dirs, files, pc, outputDir, mem, trace, stdout, stderr,
          dIn, dOut, gIn, gOut>>

Max(a, b) == IF a > b THEN a ELSE b
Min(a, b) == IF a < b THEN a ELSE b
SetMax(S) == CHOOSE x \in S : \A y \in S : y <= x
SetMin(S) == CHOOSE x \in S : \A y \in S : x <= y

(***************************************************************************)
(* Numbers.  A JavaScript number is a binary floating point value: 53      *)
(* significant bits, round to nearest, ties to even.  The model keeps the  *)
(* format and shrinks it: Prec significant bits, values that are integer   *)
(* multiples of 2^-FracBits.  A float is represented by the integer        *)
(* value * 2^FracBits.  A result too large for the format saturates at     *)
(* the largest float (where a double would give Infinity).                 *)
(***************************************************************************)
Prec == 3
FracBits == 6

RECURSIVE Pow2(_)
Pow2(n) == IF n = 0 THEN 1 ELSE 2 * Pow2(n - 1)

One == Pow2(FracBits)
MaxExp == FracBits - Prec + 2
FloatVals == {m * Pow2(k) : m \in 0..(Pow2(Prec) - 1), k \in 0..MaxExp}

RECURSIVE Mant(_)
Mant(f) == IF f < Pow2(Prec) THEN f ELSE Mant(f \div 2)

\* the float nearest to the rational n/d (n >= 0, d > 0), ties to even
RoundPos(n, d) ==
    LET below == {f \in FloatVals : f * d <= n}
        above == {f \in FloatVals : f * d >= n}
        lo == SetMax(below)
        hi == IF above = {} THEN lo ELSE SetMin(above)
    IN  IF n - lo * d < hi * d - n THEN lo
        ELSE IF n - lo * d > hi * d - n THEN hi
        ELSE IF Mant(lo) % 2 = 0 THEN lo ELSE hi

Round(n, d) == IF n < 0 THEN 0 - RoundPos(0 - n, d) ELSE RoundPos(n, d)

\* a / b and a - b on floats, each rounded once as the hardware does
FlDiv(a, b) == Round(a * One, b)
FlSub(a, b) == Round(a - b, 1)

\* Math.max(0, x)
MathMax0(x) == IF x > 0 THEN x ELSE 0

\* CONFIG.distanceThreshold: the literal 0.6 as the nearest float
distanceThreshold == RoundPos(6 * One, 10)

(***************************************************************************)
(* The decision: runVerification's isMatch and the result block of         *)
(* generateVerificationReport.  threshold is CONFIG.distanceThreshold.     *)
(***************************************************************************)
IsMatchLe(faceDistance, threshold) == faceDistance <= threshold

IsMatch(faceDistance, threshold) == faceDistance < threshold

ConfidenceUnclamped(faceDistance, threshold) ==
    FlSub(One, FlDiv(faceDistance, threshold))

ConfidenceNoThreshold(faceDistance, threshold) ==
    MathMax0(FlSub(One, faceDistance))

Confidence(faceDistance, threshold) ==
    MathMax0(FlSub(One, FlDiv(faceDistance, threshold)))

StatusOf(isMatch) == IF isMatch THEN "VERIFIED" ELSE "REJECTED"

ResultBlock(isMatch, faceDistance, threshold) ==
    [isMatch |-> isMatch,
     faceDistance |-> faceDistance,
     threshold |-> threshold,
     confidence |-> Confidence(faceDistance, threshold),
     status |-> StatusOf(isMatch)]

(***************************************************************************)
(* Geometry.  A detection box has fractional coordinates: x, y, width and  *)
(* height are integers in units of 1/Sub pixel.  A zoom factor is the      *)
(* rational <<num, den>>.  Image sizes and the returned box are in whole   *)
(* pixels.  The arithmetic is carried out exactly, on the common           *)
(* denominator Sub * 2 * den, and Math.floor is \div (which floors).       *)
(***************************************************************************)
Sub == 2

zoomOutFactor == <<3, 10>>

calculateZoomedOutBoxNoClamp(box, zoomFactor, imageWidth, imageHeight) ==
    LET num == zoomFactor[1]
        S == Sub * 2 * zoomFactor[2]
        newX == Max(0, box.x * 2 * zoomFactor[2] - box.width * num)
        newY == Max(0, box.y * 2 * zoomFactor[2] - box.height * num)
        newWidth == box.width * 2 * zoomFactor[2] + box.width * num * 2
        newHeight == box.height * 2 * zoomFactor[2] + box.height * num * 2
    IN  [x |-> newX \div S, y |-> newY \div S,
         width |-> newWidth \div S, height |-> newHeight \div S]

calculateZoomedOutBoxShrink(box, zoomFactor, imageWidth, imageHeight) ==
    LET num == zoomFactor[1]
        S == Sub * 2 * zoomFactor[2]
        x == box.x * 2 * zoomFactor[2]
        y == box.y * 2 * zoomFactor[2]
        width == box.width * 2 * zoomFactor[2]
        height == box.height * 2 * zoomFactor[2]
        zoomOutX == box.width * num * 2
        zoomOutY == box.height * num * 2
        newX == Max(0, x - zoomOutX \div 2)
        newY == Max(0, y - zoomOutY \div 2)
        newWidth == Min(imageWidth * S - newX, width - zoomOutX)
        newHeight == Min(imageHeight * S - newY, height - zoomOutY)
    IN  [x |-> newX \div S, y |-> newY \div S,
         width |-> newWidth \div S, height |-> newHeight \div S]

calculateZoomedOutBoxInward(box, zoomFactor, imageWidth, imageHeight) ==
    LET num == zoomFactor[1]
        S == Sub * 2 * zoomFactor[2]
        x == box.x * 2 * zoomFactor[2]
        y == box.y * 2 * zoomFactor[2]
        width == box.width * 2 * zoomFactor[2]
        height == box.height * 2 * zoomFactor[2]
        zoomOutX == box.width * num * 2
        zoomOutY == box.height * num * 2
        newX == Max(0, x + zoomOutX \div 2)
        newY == Max(0, y + zoomOutY \div 2)
        newWidth == Min(imageWidth * S - newX, width + zoomOutX)
        newHeight == Min(imageHeight * S - newY, height + zoomOutY)
    IN  [x |-> newX \div S, y |-> newY \div S,
         width |-> newWidth \div S, height |-> newHeight \div S]

calculateZoomedOutBox(box, zoomFactor, imageWidth, imageHeight) ==
    LET num == zoomFactor[1]
        S == Sub * 2 * zoomFactor[2]
        \* each of these is the source's value times S
        x == box.x * 2 * zoomFactor[2]
        y == box.y * 2 * zoomFactor[2]
        width == box.width * 2 * zoomFactor[2]
        height == box.height * 2 * zoomFactor[2]
        zoomOutX == box.width * num * 2
        zoomOutY == box.height * num * 2
        newX == Max(0, x - zoomOutX \div 2)
        newY == Max(0, y - zoomOutY \div 2)
        newWidth == Min(imageWidth * S - newX, width + zoomOutX)
        newHeight == Min(imageHeight * S - newY, height + zoomOutY)
    IN  [x |-> newX \div S, y |-> newY \div S,
         width |-> newWidth \div S, height |-> newHeight \div S]

(***************************************************************************)
(* The pipeline.  Each process runs main() once.  The images on disk, the  *)
(* face model and the descriptor distance are the environment: what they   *)
(* return is drawn from the sets below at the call that reads it.          *)
(***************************************************************************)
Runs == {1, 2}
MaxClock == 1

faceQuality == 80
\* detection scores, in hundredths
Scores == {65, 80}
Images == {[width |-> 4, height |-> 3]}
\* detection boxes, in units of 1/Sub pixel: the face of the reference image
\* and the face of the query image
ReferenceBoxes == {[x |-> 4, y |-> 2, width |-> 4, height |-> 3]}
QueryBoxes == {[x |-> 2, y |-> 1, width |-> 2, height |-> 2]}
\* detectSingleFace found no face: the awaited value is undefined
Undefined == [undefined |-> TRUE]
Detections(boxes) ==
    {[detection |-> [box |-> b, score |-> s]] : b \in boxes, s \in Scores}
\* distances the descriptors may be at: the largest float below the
\* threshold, and the threshold itself
PipeDistances ==
    {SetMax({f \in FloatVals : f < distanceThreshold}), distanceThreshold}

Event(op, arg) == [op |-> op, arg |-> arg]

\* new Date().toISOString() of the instant ms (ms < 10), as characters
Digit(n) == <<"0", "1", "2", "3", "4", "5", "6", "7", "8", "9">>[n + 1]
toISOString(ms) ==
    <<"2", "0", "2", "5", "-", "0", "1", "-", "0", "1", "T",
      "0", "0", ":", "0", "0", ":", "0", "0", ".",
      "0", "0", Digit(ms), "Z">>
\* .replace(/[:.]/g, "-")
replaceColonDot(str) ==
    [i \in 1..Len(str) |-> IF str[i] \in {":", "."} THEN "-" ELSE str[i]]

\* `verify_${Date.now()}` and `${report.verificationId}.json`
verificationId(ms) == "verify_" \o ToString(ms)
reportFilename(report) == report.verificationId \o ".json"

\* path.join(outputDir, filename)
pathJoin(dir, filename) == <<dir, filename>>

\* fs.writeFileSync(path, data): the file is created or replaced.  A write
\* that fails may leave a truncated file behind.
writeFile(fs, path, by, kind, data, complete) ==
    LET entry == [by |-> by, kind |-> kind, data |-> data, complete |-> complete]
    IN  IF path \in DOMAIN fs
        THEN [fs EXCEPT ![path] = Append(@, entry)]
        ELSE fs @@ (path :> <<entry>>)
Truncated == [truncated |-> TRUE]
WriteOutcomes == {"ok", "truncated", "error"}

\* the catch block of main: console.error and process.exit(1)
Throw(r, message, events) ==
    /\ pc' = [pc EXCEPT ![r] = "failed"]
    /\ stderr' = [stderr EXCEPT ![r] = Append(@, message)]
    /\ mem' = [mem EXCEPT ![r] = <<>>]
    /\ trace' = [trace EXCEPT ![r] = @ \o events]

ExternalError(op) == [text |-> "external error", op |-> op]

Tick ==
    /\ now < MaxClock
    /\ now' = now + 1
    /\ UNCHANGED <<dirs, files, pc, outputDir, mem, trace, stdout, stderr>>
    /\ UNCHANGED otherVars

\* main, lines 282-287: too few arguments
MainUsage(r) ==
    /\ pc[r] = "main"
    /\ pc' = [pc EXCEPT ![r] = "exited"]
    /\ stderr' = [stderr EXCEPT ![r] = Append(@, [text |-> "Usage"])]
    /\ UNCHANGED <<now, dirs, files, outputDir, mem, trace, stdout>>
    /\ UNCHANGED otherVars

\* createTimestampedDirectory: the name it computes
createTimestampedDirectoryName(ms) == replaceColonDot(toISOString(ms))

\* main, line 293: createTimestampedDirectory()
MainCreateDirectory(r) ==
    /\ pc[r] = "main"
    /\ LET dir == createTimestampedDirectoryName(now)
       IN  \/ /\ dir \in dirs
              /\ outputDir' = [outputDir EXCEPT ![r] = dir]
              /\ pc' = [pc EXCEPT ![r] = "loadModels"]
              /\ trace' = [trace EXCEPT ![r] = Append(@, Event("existsSync", "outputDir"))]
              /\ UNCHANGED <<dirs, mem, stderr>>
           \/ /\ dir \notin dirs
              /\ dirs' = dirs \cup {dir}
              /\ outputDir' = [outputDir EXCEPT ![r] = dir]
              /\ pc' = [pc EXCEPT ![r] = "loadModels"]
              /\ trace' = [trace EXCEPT ![r] = Append(@, Event("mkdirSync", "outputDir"))]
              /\ UNCHANGED <<mem, stderr>>
           \/ /\ dir \notin dirs
              /\ Throw(r, ExternalError("mkdirSync"), <<Event("throw", "mkdirSync")>>)
              /\ UNCHANGED <<dirs, outputDir>>
    /\ UNCHANGED <<now, files, stdout>>
    /\ UNCHANGED otherVars

\* main, line 294: await loadModels()
MainLoadModels(r) ==
    /\ pc[r] = "loadModels"
    /\ \/ /\ pc' = [pc EXCEPT ![r] = "checkReference"]
          /\ UNCHANGED mem
          /\ trace' = [trace EXCEPT ![r] = Append(@, Event("loadModels", "models"))]
          /\ UNCHANGED stderr
       \/ Throw(r, ExternalError("loadModels"), <<Event("throw", "loadModels")>>)
    /\ UNCHANGED <<now, dirs, files, outputDir, stdout>>
    /\ UNCHANGED otherVars

\* runVerification, lines 170-172
CheckReference(r) ==
    /\ pc[r] = "checkReference"
    /\ \/ /\ pc' = [pc EXCEPT ![r] = "checkQuery"]
          /\ trace' = [trace EXCEPT ![r] = Append(@, Event("existsSync", "reference"))]
          /\ UNCHANGED <<mem, stderr>>
       \/ Throw(r, [text |-> "Reference image not found"],
                <<Event("existsSync", "reference"), Event("throw", "reference")>>)
    /\ UNCHANGED <<now, dirs, files, outputDir, stdout, otherVars>>

CheckQueryAfterLoad(r) ==
    /\ pc[r] = "checkQuery"
    /\ \/ /\ pc' = [pc EXCEPT ![r] = "loadReference"]
          /\ trace' = [trace EXCEPT ![r] = Append(@, Event("existsSync", "query"))]
          /\ UNCHANGED <<mem, stderr>>
       \/ Throw(r, [text |-> "Query image not found"],
                <<Event("existsSync", "query"), Event("loadImage", "reference"),
                  Event("throw", "query")>>)
    /\ UNCHANGED <<now, dirs, files, outputDir, stdout, otherVars>>

\* runVerification, lines 173-175
CheckQuery(r) ==
    /\ pc[r] = "checkQuery"
    /\ \/ /\ pc' = [pc EXCEPT ![r] = "loadReference"]
          /\ trace' = [trace EXCEPT ![r] = Append(@, Event("existsSync", "query"))]
          /\ UNCHANGED <<mem, stderr>>
       \/ Throw(r, [text |-> "Query image not found"],
                <<Event("existsSync", "query"), Event("throw", "query")>>)
    /\ UNCHANGED <<now, dirs, files, outputDir, stdout, otherVars>>

\* an awaited external call that stores its value in a local, or throws
Await(r, op, arg, local, values, next) ==
    /\ \/ \E v \in values :
             /\ pc' = [pc EXCEPT ![r] = next]
             /\ mem' = [mem EXCEPT ![r] = (local :> v) @@ @]
             /\ trace' = [trace EXCEPT ![r] = Append(@, Event(op, arg))]
             /\ UNCHANGED stderr
       \/ Throw(r, ExternalError(op), <<Event(op, arg), Event("throw", op)>>)
    /\ UNCHANGED <<now, dirs, files, outputDir, stdout, otherVars>>

\* runVerification, line 177
LoadReference(r) ==
    /\ pc[r] = "loadReference"
    /\ Await(r, "loadImage", "reference", "referenceImage", Images, "loadQuery")

\* runVerification, line 178
LoadQuery(r) ==
    /\ pc[r] = "loadQuery"
    /\ Await(r, "loadImage", "query", "queryImage", Images, "detectReference")

\* runVerification, lines 180-183
DetectReference(r) ==
    /\ pc[r] = "detectReference"
    /\ Await(r, "detectSingleFace", "reference", "referenceResult",
             Detections(ReferenceBoxes) \cup {Undefined}, "detectQuery")

\* runVerification, lines 185-188
DetectQuery(r) ==
    /\ pc[r] = "detectQuery"
    /\ Await(r, "detectSingleFace", "query", "queryResult",
             Detections(QueryBoxes) \cup {Undefined}, "gates")

NoError == [text |-> "no error"]
LowScore(image, score) ==
    [text |-> "Low detection score", image |-> image, score |-> score]
NoFace(image) == [text |-> "Could not detect a face", image |-> image]

GateErrorStrict(referenceResult, queryResult) ==
    IF referenceResult = Undefined THEN NoFace("reference")
    ELSE IF queryResult = Undefined THEN NoFace("query")
    ELSE IF referenceResult.detection.score <= faceQuality
    THEN LowScore("reference", referenceResult.detection.score)
    ELSE IF queryResult.detection.score <= faceQuality
    THEN LowScore("query", queryResult.detection.score)
    ELSE NoError

GateErrorScoresFirst(referenceResult, queryResult) ==
    IF referenceResult = Undefined THEN NoFace("reference")
    ELSE IF referenceResult.detection.score < faceQuality
    THEN LowScore("reference", referenceResult.detection.score)
    ELSE IF queryResult = Undefined THEN NoFace("query")
    ELSE IF queryResult.detection.score < faceQuality
    THEN LowScore("query", queryResult.detection.score)
    ELSE NoError

\* runVerification, lines 190-206: the first failing check decides the error
GateError(referenceResult, queryResult) ==
    IF referenceResult = Undefined THEN NoFace("reference")
    ELSE IF queryResult = Undefined THEN NoFace("query")
    ELSE IF referenceResult.detection.score < faceQuality
    THEN LowScore("reference", referenceResult.detection.score)
    ELSE IF queryResult.detection.score < faceQuality
    THEN LowScore("query", queryResult.detection.score)
    ELSE NoError

Gates(r) ==
    /\ pc[r] = "gates"
    /\ LET e == GateError(mem[r].referenceResult, mem[r].queryResult)
       IN  \/ /\ e = NoError
              /\ pc' = [pc EXCEPT ![r] = "distance"]
              /\ trace' = [trace EXCEPT ![r] = Append(@, Event("gates", "passed"))]
              /\ UNCHANGED <<mem, stderr>>
           \* the throw, caught by main; the two awaited results are left
           \* in mem, so that what the checks saw stays visible
           \/ /\ e # NoError
              /\ pc' = [pc EXCEPT ![r] = "failed"]
              /\ stderr' = [stderr EXCEPT ![r] = Append(@, e)]
              /\ trace' = [trace EXCEPT ![r] = Append(@, Event("throw", "gates"))]
              /\ UNCHANGED mem
    /\ UNCHANGED <<now, dirs, files, outputDir, stdout, otherVars>>

\* runVerification, lines 208-213
Decide(r) ==
    /\ pc[r] = "distance"
    /\ \E d \in PipeDistances :
          /\ mem' = [mem EXCEPT ![r] =
                        ("faceDistance" :> d) @@
                        ("isMatch" :> IsMatch(d, distanceThreshold)) @@ @]
    /\ pc' = [pc EXCEPT ![r] = "extractReference"]
    /\ trace' = [trace EXCEPT ![r] = Append(@, Event("euclideanDistance", "both"))]
    /\ UNCHANGED <<now, dirs, files, outputDir, stdout, stderr, otherVars>>

extractAndSaveFaceRawBox(image, detection, imageName, outDir) ==
    LET zoomedBox == calculateZoomedOutBox(detection.detection.box, zoomOutFactor,
                                           image.width, image.height)
        faceFilename == "face_" \o imageName \o ".jpg"
    IN  [region |-> zoomedBox,
         value |-> [filename |-> faceFilename,
                    path |-> pathJoin(outDir, faceFilename),
                    coordinates |-> [x |-> detection.detection.box.x \div Sub,
                                     y |-> detection.detection.box.y \div Sub,
                                     width |-> detection.detection.box.width \div Sub,
                                     height |-> detection.detection.box.height \div Sub],
                    detectionScore |-> detection.detection.score]]

\* extractAndSaveFace: region is the source rectangle handed to drawImage,
\* value is what the function returns
extractAndSaveFace(image, detection, imageName, outDir) ==
    LET zoomedBox == calculateZoomedOutBox(detection.detection.box, zoomOutFactor,
                                           image.width, image.height)
        faceFilename == "face_" \o imageName \o ".jpg"
    IN  [region |-> zoomedBox,
         value |-> [filename |-> faceFilename,
                    path |-> pathJoin(outDir, faceFilename),
                    coordinates |-> zoomedBox,
                    detectionScore |-> detection.detection.score]]

\* a call that ends in fs.writeFileSync(path, ...) and stores a local
WriteStep(r, path, kind, data, op, arg, locals, next) ==
    /\ \E outcome \in WriteOutcomes :
          \/ /\ outcome = "ok"
             /\ files' = writeFile(files, path, r, kind, data, TRUE)
             /\ mem' = [mem EXCEPT ![r] = locals @@ @]
             /\ pc' = [pc EXCEPT ![r] = next]
             /\ trace' = [trace EXCEPT ![r] = Append(@, Event(op, arg))]
             /\ UNCHANGED stderr
          \/ /\ outcome = "truncated"
             /\ files' = writeFile(files, path, r, kind, Truncated, FALSE)
             /\ Throw(r, ExternalError(op), <<Event(op, arg), Event("throw", op)>>)
          \/ /\ outcome = "error"
             /\ UNCHANGED files
             /\ Throw(r, ExternalError(op), <<Event(op, arg), Event("throw", op)>>)
    /\ UNCHANGED <<now, dirs, outputDir, stdout, otherVars>>

ExtractReferenceSkipQuery(r) ==
    /\ pc[r] = "extractReference"
    /\ LET e == extractAndSaveFace(mem[r].referenceImage, mem[r].referenceResult,
                                   "reference", outputDir[r])
       IN  WriteStep(r, e.value.path, "crop", [image |-> "reference", region |-> e.region],
                     "extractAndSaveFace", "reference",
                     ("referenceFaceData" :> e.value) @@ ("queryFaceData" :> e.value),
                     "drawReference")

\* runVerification, lines 215-220
ExtractReference(r) ==
    /\ pc[r] = "extractReference"
    /\ LET e == extractAndSaveFace(mem[r].referenceImage, mem[r].referenceResult,
                                   "reference", outputDir[r])
       IN  WriteStep(r, e.value.path, "crop", [image |-> "reference", region |-> e.region],
                     "extractAndSaveFace", "reference",
                     "referenceFaceData" :> e.value, "extractQuery")

\* runVerification, lines 222-227
ExtractQuery(r) ==
    /\ pc[r] = "extractQuery"
    /\ LET e == extractAndSaveFace(mem[r].queryImage, mem[r].queryResult,
                                   "query", outputDir[r])
       IN  WriteStep(r, e.value.path, "crop", [image |-> "query", region |-> e.region],
                     "extractAndSaveFace", "query",
                     "queryFaceData" :> e.value, "drawReference")

\* drawFaceDetection: what it paints on the copy of the image
drawFaceDetection(image, detection) ==
    [width |-> image.width, height |-> image.height,
     strokeRect |-> detection.detection.box,
     label |-> detection.detection.score]

\* runVerification, lines 229-233
DrawReference(r) ==
    /\ pc[r] = "drawReference"
    /\ WriteStep(r, pathJoin(outputDir[r], "reference_detection.jpg"), "overlay",
                 drawFaceDetection(mem[r].referenceImage, mem[r].referenceResult),
                 "drawFaceDetection", "reference", <<>>, "drawQuery")

\* runVerification, lines 235-239
DrawQuery(r) ==
    /\ pc[r] = "drawQuery"
    /\ WriteStep(r, pathJoin(outputDir[r], "query_detection.jpg"), "overlay",
                 drawFaceDetection(mem[r].queryImage, mem[r].queryResult),
                 "drawFaceDetection", "query", <<>>, "report")

\* path.basename of the two input paths
basename(imageName) == imageName \o ".jpg"

generateVerificationReport(referenceData, queryData, faceDistance, isMatch, outDir, ms) ==
    [verificationId |-> verificationId(ms),
     timestamp |-> toISOString(ms),
     result |-> ResultBlock(isMatch, faceDistance, distanceThreshold),
     referenceImage |-> [filename |-> basename(referenceData.imagePath),
                         faceDetected |-> referenceData.faceDetected,
                         detectionScore |-> referenceData.detectionScore,
                         faceFile |-> referenceData.faceFile,
                         coordinates |-> referenceData.coordinates,
                         imageDimensions |-> referenceData.imageDimensions],
     queryImage |-> [filename |-> basename(queryData.imagePath),
                     faceDetected |-> queryData.faceDetected,
                     detectionScore |-> queryData.detectionScore,
                     faceFile |-> queryData.faceFile,
                     coordinates |-> queryData.coordinates,
                     imageDimensions |-> queryData.imageDimensions],
     outputDirectory |-> outDir]

\* runVerification, lines 242-260: the two per-image arguments
imageData(imageName, image, result, faceData) ==
    [imagePath |-> imageName,
     faceDetected |-> TRUE,
     detectionScore |-> result.detection.score,
     faceFile |-> faceData.filename,
     coordinates |-> faceData.coordinates,
     imageDimensions |-> [width |-> image.width, height |-> image.height]]

\* runVerification, lines 241-279: assemble, persist, return
Report(r) ==
    /\ pc[r] = "report"
    /\ LET m == mem[r]
           reportData == generateVerificationReport(
               imageData("reference", m.referenceImage, m.referenceResult,
                         m.referenceFaceData),
               imageData("query", m.queryImage, m.queryResult, m.queryFaceData),
               m.faceDistance, m.isMatch, outputDir[r], now)
           reportPath == pathJoin(outputDir[r], reportFilename(reportData))
           result == [isMatch |-> m.isMatch,
                      faceDistance |-> m.faceDistance,
                      confidence |-> reportData.result.confidence,
                      referenceScore |-> m.referenceResult.detection.score,
                      queryScore |-> m.queryResult.detection.score,
                      reportPath |-> reportPath,
                      referenceFace |-> m.referenceFaceData.filename,
                      queryFace |-> m.queryFaceData.filename,
                      outputDir |-> outputDir[r]]
       IN  WriteStep(r, reportPath, "report", reportData,
                     "saveVerificationReport", "report",
                     ("reportData" :> reportData) @@ ("result" :> result), "print")

FinalLineSwapped(result) == IF result.isMatch THEN "REJECTED" ELSE "VERIFIED"

\* main, lines 318-322
FinalLine(result) == IF result.isMatch THEN "VERIFIED" ELSE "REJECTED"

\* main, lines 304-322.  The numbers are kept as they are: toFixed is not
\* modelled, the elapsed time (startTime, endTime) is left out of its line,
\* and nothing below reads these lines but the last.
MainPrint(r) ==
    /\ pc[r] = "print"
    /\ LET result == mem[r].result
       IN  stdout' = [stdout EXCEPT ![r] =
              <<[text |-> "Face Distance", value |-> result.faceDistance],
                [text |-> "Threshold", value |-> distanceThreshold],
                [text |-> "Confidence", value |-> result.confidence],
                [text |-> "Detection Scores",
                 value |-> <<result.referenceScore, result.queryScore>>],
                [text |-> "Reference face", value |-> result.referenceFace],
                [text |-> "Query face", value |-> result.queryFace],
                [text |-> "Processing time"],
                [text |-> "Output Directory", value |-> result.outputDir],
                [text |-> "Report", value |-> result.reportPath],
                [text |-> FinalLine(result)]>>]
    /\ pc' = [pc EXCEPT ![r] = "done"]
    /\ UNCHANGED <<now, dirs, files, outputDir, mem, trace, stderr, otherVars>>

Init ==
    /\ now = 0
    /\ dirs = {}
    /\ files = <<>>
    /\ pc = [r \in Runs |-> "main"]
    /\ outputDir = [r \in Runs |-> <<>>]
    /\ mem = [r \in Runs |-> <<>>]
    /\ trace = [r \in Runs |-> <<>>]
    /\ stdout = [r \in Runs |-> <<>>]
    /\ stderr = [r \in Runs |-> <<>>]
    /\ dIn = <<>> /\ dOut = <<>> /\ gIn = <<>> /\ gOut = <<>>

Next ==
    \/ Tick
    \/ \E r \in Runs :
          \/ MainUsage(r)
          \/ MainCreateDirectory(r)
          \/ MainLoadModels(r)
          \/ CheckReference(r)
          \/ CheckQuery(r)
          \/ LoadReference(r)
          \/ LoadQuery(r)
          \/ DetectReference(r)
          \/ DetectQuery(r)
          \/ Gates(r)
          \/ Decide(r)
          \/ ExtractReference(r)
          \/ ExtractQuery(r)
          \/ DrawReference(r)
          \/ DrawQuery(r)
          \/ Report(r)
          \/ MainPrint(r)

Spec == Init /\ [][Next]_vars

(***************************************************************************)
(* SpecDecide: the decision applied to every distance and every positive   *)
(* threshold of the float format.                                          *)
(***************************************************************************)
PipeIdle ==
    /\ now = 0
    /\ dirs = {}
    /\ files = <<>>
    /\ pc = [r \in Runs |-> "off"]
    /\ outputDir = [r \in Runs |-> <<>>]
    /\ mem = [r \in Runs |-> <<>>]
    /\ trace = [r \in Runs |-> <<>>]
    /\ stdout = [r \in Runs |-> <<>>]
    /\ stderr = [r \in Runs |-> <<>>]

InitDecide ==
    /\ PipeIdle
    /\ dIn \in [faceDistance : FloatVals, threshold : FloatVals \ {0}]
    /\ dOut = <<>>
    /\ gIn = <<>> /\ gOut = <<>>

\* runVerification line 213, then generateVerificationReport lines 108-114
DecideApply ==
    /\ dOut = <<>>
    /\ dOut' = ResultBlock(IsMatch(dIn.faceDistance, dIn.threshold),
                           dIn.faceDistance, dIn.threshold)
    /\ UNCHANGED <<dIn, gIn, gOut, pipeVars>>

NextDecide == DecideApply

SpecDecide == InitDecide /\ [][NextDecide]_vars

(***************************************************************************)
(* SpecGeom: calculateZoomedOutBox applied to every box, zoom factor and   *)
(* image size below.  Boxes may lie partly outside the image, as the       *)
(* detector's do.                                                          *)
(***************************************************************************)
GeomMax == 4
ImgMax == 2
Zooms == {<<0, 1>>, zoomOutFactor, <<1, 1>>, <<5, 2>>}
GeomBoxes == [x : (0 - 2)..GeomMax, y : (0 - 2)..GeomMax,
              width : 0..GeomMax, height : 0..GeomMax]

InitGeom ==
    /\ PipeIdle
    /\ dIn = <<>> /\ dOut = <<>>
    /\ gIn \in [box : GeomBoxes, zoomFactor : Zooms,
                imageWidth : 1..ImgMax, imageHeight : 1..ImgMax]
    /\ gOut = <<>>

GeomApply ==
    /\ gOut = <<>>
    /\ gOut' = calculateZoomedOutBox(gIn.box, gIn.zoomFactor,
                                     gIn.imageWidth, gIn.imageHeight)
    /\ UNCHANGED <<gIn, dIn, dOut, pipeVars>>

NextGeom == GeomApply

SpecGeom == InitGeom /\ [][NextGeom]_vars

(***************************************************************************)
(* Properties.                                                             *)
(***************************************************************************)
Last(seq) == seq[Len(seq)]
Occurs(tr, e) == \E i \in 1..Len(tr) : tr[i] = e
Position(tr, e) == CHOOSE i \in 1..Len(tr) : tr[i] = e
Count(tr, e) == Cardinality({i \in 1..Len(tr) : tr[i] = e})
Before(tr, a, b) == Occurs(tr, a) /\ Occurs(tr, b) /\ Position(tr, a) < Position(tr, b)

\* a report file written in full
IsReport(entry) == entry.kind = "report" /\ entry.complete
Computed(v) == DOMAIN v # {}

\* C2: in every persisted report isMatch is true exactly when faceDistance is
\* strictly below the configured threshold; at a distance equal to the
\* threshold the report says isMatch false, REJECTED, confidence 0, and at a
\* distance below it isMatch true, VERIFIED.
C2_StrictInequality ==
    \A p \in DOMAIN files : \A i \in 1..Len(files[p]) :
        IsReport(files[p][i]) =>
            LET res == files[p][i].data.result
            IN  /\ res.threshold = distanceThreshold
                /\ res.isMatch <=> (res.faceDistance < distanceThreshold)
                /\ res.faceDistance = distanceThreshold =>
                      /\ res.isMatch = FALSE
                      /\ res.status = "REJECTED"
                      /\ res.confidence = 0
                /\ res.faceDistance < distanceThreshold =>
                      /\ res.isMatch = TRUE
                      /\ res.status = "VERIFIED"

\* one report at the threshold and one at the float just below it
C2_Witness ==
    /\ \E p \in DOMAIN files : \E i \in 1..Len(files[p]) :
          /\ IsReport(files[p][i])
          /\ files[p][i].data.result.faceDistance = distanceThreshold
    /\ \E p \in DOMAIN files : \E i \in 1..Len(files[p]) :
          /\ IsReport(files[p][i])
          /\ files[p][i].data.result.faceDistance < distanceThreshold
          /\ files[p][i].data.result.faceDistance > 0

\* C3 as stated: for every distance >= 0 and threshold > 0 the confidence is
\* within [0, 1], is 0 whenever distance >= threshold, and is 1 if and only
\* if the distance is 0.
C3_AsStated ==
    Computed(dOut) =>
        /\ 0 <= dOut.confidence /\ dOut.confidence <= One
        /\ dIn.faceDistance >= dIn.threshold => dOut.confidence = 0
        /\ dOut.confidence = One <=> dIn.faceDistance = 0

\* C3 amended: the confidence is within [0, 1], is 0 whenever distance >=
\* threshold, is 1 whenever the distance is 0, and is 1 only when
\* distance / threshold is below the spacing of the floats under 1
\* (2^-Prec; 2^-53 for a double): every distance with distance / threshold
\* at most half that spacing has confidence 1, because 1 - distance/threshold
\* then rounds to 1.
C3_ConfidenceBounds ==
    Computed(dOut) =>
        /\ 0 <= dOut.confidence /\ dOut.confidence <= One
        /\ dIn.faceDistance >= dIn.threshold => dOut.confidence = 0
        /\ dIn.faceDistance = 0 => dOut.confidence = One
        /\ dIn.faceDistance * Pow2(Prec + 1) <= dIn.threshold => dOut.confidence = One
        /\ dOut.confidence = One => dIn.faceDistance * Pow2(Prec) < dIn.threshold

\* a positive distance whose confidence is 1, and the threshold 0.6
C3_Witness ==
    /\ Computed(dOut)
    /\ dIn.threshold = distanceThreshold
    /\ dIn.faceDistance > 0
    /\ dOut.confidence = One

\* C4: for any box and any zoom factor >= 0 the returned box lies inside the
\* image: x >= 0, y >= 0, x + width <= imageWidth, y + height <= imageHeight.
C4_BoxClamped ==
    Computed(gOut) =>
        /\ gOut.x >= 0
        /\ gOut.y >= 0
        /\ gOut.x + gOut.width <= gIn.imageWidth
        /\ gOut.y + gOut.height <= gIn.imageHeight

\* a box that starts left of the image and whose enlargement overruns the
\* right and the bottom edge
C4_Witness ==
    /\ Computed(gOut)
    /\ gIn.zoomFactor = zoomOutFactor
    /\ gIn.box.x < 0
    /\ gIn.box.x + gIn.box.width > gIn.imageWidth * Sub
    /\ gIn.box.y > 0
    /\ gIn.box.y + gIn.box.height > gIn.imageHeight * Sub
    /\ gOut.x = 0
    /\ gOut.x + gOut.width = gIn.imageWidth
    /\ gOut.y + gOut.height = gIn.imageHeight

SaveEvent == Event("saveVerificationReport", "report")
StageEvents ==
    <<Event("existsSync", "reference"), Event("existsSync", "query"),
      Event("loadImage", "reference"), Event("loadImage", "query"),
      Event("detectSingleFace", "reference"), Event("detectSingleFace", "query"),
      Event("gates", "passed"), Event("euclideanDistance", "both"),
      Event("extractAndSaveFace", "reference"), Event("extractAndSaveFace", "query"),
      Event("drawFaceDetection", "reference"), Event("drawFaceDetection", "query")>>
WriteEvents ==
    {Event("extractAndSaveFace", "reference"), Event("extractAndSaveFace", "query"),
     Event("drawFaceDetection", "reference"), Event("drawFaceDetection", "query"),
     SaveEvent}

\* C1: a report file is written by a run only after the existence checks, both
\* decodes, both detections, the quality gate, the distance, both extractions
\* and both overlays of that run; and a run that failed before its report
\* stage has no report file in its output directory.
C1_NoPartialReport ==
    \A r \in Runs :
        /\ \A p \in DOMAIN files : \A i \in 1..Len(files[p]) :
              (files[p][i].kind = "report" /\ files[p][i].by = r) =>
                  \A k \in 1..Len(StageEvents) :
                      Before(trace[r], StageEvents[k], SaveEvent)
        /\ (pc[r] = "failed" /\ ~Occurs(trace[r], SaveEvent) /\ outputDir[r] # <<>>) =>
              \A p \in DOMAIN files : \A i \in 1..Len(files[p]) :
                  p[1] = outputDir[r] => files[p][i].kind # "report"

GatesStep(r) == pc[r] = "gates" /\ pc'[r] # "gates"
FailedWith(r, message) ==
    pc[r] = "failed" /\ Len(stderr[r]) > 0 /\ Last(stderr[r]) = message

\* the part of C5 that is about states: a run that failed with a low detection
\* score has written no report, and every persisted report carries two scores
\* that are at least faceQuality
C5_StatePart ==
    /\ \A r \in Runs :
          (pc[r] = "failed" /\ Len(stderr[r]) > 0
             /\ Last(stderr[r]).text = "Low detection score") =>
              \A p \in DOMAIN files : \A i \in 1..Len(files[p]) :
                  ~(files[p][i].kind = "report" /\ files[p][i].by = r)
    /\ \A p \in DOMAIN files : \A i \in 1..Len(files[p]) :
          IsReport(files[p][i]) =>
              /\ files[p][i].data.referenceImage.detectionScore >= faceQuality
              /\ files[p][i].data.queryImage.detectionScore >= faceQuality

\* C5 as stated: if either image's detection score is below faceQuality the run
\* fails with a low-detection-score error naming that image and its score, and
\* writes no report; every persisted report has both scores >= faceQuality.
C5_AsStated ==
    /\ [][\A r \in Runs : GatesStep(r) =>
            LET ref == mem[r].referenceResult
                qry == mem[r].queryResult
            IN  /\ (ref # Undefined /\ ref.detection.score < faceQuality) =>
                      /\ pc'[r] = "failed"
                      /\ Last(stderr'[r]) = LowScore("reference", ref.detection.score)
                /\ (qry # Undefined /\ qry.detection.score < faceQuality) =>
                      /\ pc'[r] = "failed"
                      /\ Last(stderr'[r]) = LowScore("query", qry.detection.score)]_vars
    /\ []C5_StatePart

\* C5 amended: when a face was detected in both images and a detection score is
\* below faceQuality, the run fails with a low-detection-score error naming the
\* first such image in the order reference, query, with its observed score, and
\* writes no report; with both scores >= faceQuality (equal included) the gate
\* passes; every persisted report has both scores >= faceQuality.
C5_QualityGate ==
    /\ [][\A r \in Runs : GatesStep(r) =>
            LET ref == mem[r].referenceResult
                qry == mem[r].queryResult
            IN  (ref # Undefined /\ qry # Undefined) =>
                  IF ref.detection.score < faceQuality
                  THEN /\ pc'[r] = "failed"
                       /\ Last(stderr'[r]) = LowScore("reference", ref.detection.score)
                  ELSE IF qry.detection.score < faceQuality
                  THEN /\ pc'[r] = "failed"
                       /\ Last(stderr'[r]) = LowScore("query", qry.detection.score)
                  ELSE pc'[r] = "distance"]_vars
    /\ []C5_StatePart

\* one run stopped by the score of its query image, the other persisted a
\* report whose reference score equals faceQuality
C5_Witness ==
    /\ \E r \in Runs : FailedWith(r, LowScore("query", 65))
    /\ \E p \in DOMAIN files : \E i \in 1..Len(files[p]) :
          /\ IsReport(files[p][i])
          /\ files[p][i].data.referenceImage.detectionScore = faceQuality

\* C6: a run whose query file is missing fails with the query's not-found
\* error, the reference file having been found, and has neither decoded an
\* image nor run a detection.
C6_MissingQuery ==
    \A r \in Runs :
        Occurs(trace[r], Event("throw", "query")) =>
            /\ FailedWith(r, [text |-> "Query image not found"])
            /\ Occurs(trace[r], Event("existsSync", "reference"))
            /\ ~Occurs(trace[r], Event("throw", "reference"))
            /\ \A i \in 1..Len(trace[r]) :
                  trace[r][i].op \notin {"loadImage", "detectSingleFace"}

C6_Witness ==
    \E r \in Runs : /\ Occurs(trace[r], Event("throw", "query"))
                    /\ pc[r] = "failed"

ExtractEvents ==
    {Event("extractAndSaveFace", "reference"), Event("extractAndSaveFace", "query")}
DrawEvents ==
    {Event("drawFaceDetection", "reference"), Event("drawFaceDetection", "query")}
DistanceEvent == Event("euclideanDistance", "both")

\* C7: within a run no call is made twice; the distance is computed after both
\* detections and the quality gate; both crops are written before either
\* overlay, both overlays before the report is assembled and written; the
\* report is the last file the run writes; a run that completes has made each
\* extract and render call once per image and the distance and report calls
\* once, and has written each of its files once.
C7_StageOrder ==
    \A r \in Runs :
        LET tr == trace[r]
        IN  /\ \A i, j \in 1..Len(tr) : i # j => tr[i] # tr[j]
            /\ Occurs(tr, DistanceEvent) =>
                  /\ Before(tr, Event("detectSingleFace", "reference"), DistanceEvent)
                  /\ Before(tr, Event("detectSingleFace", "query"), DistanceEvent)
                  /\ Before(tr, Event("gates", "passed"), DistanceEvent)
            /\ \A d \in DrawEvents : Occurs(tr, d) =>
                  /\ Before(tr, DistanceEvent, d)
                  /\ \A e \in ExtractEvents : Before(tr, e, d)
            /\ ("reportData" \in DOMAIN mem[r] \/ Occurs(tr, SaveEvent)) =>
                  \A d \in DrawEvents : Occurs(tr, d) /\ ~Occurs(tr, Event("throw", d.op))
            /\ Occurs(tr, SaveEvent) =>
                  /\ \A w \in WriteEvents \ {SaveEvent} : Before(tr, w, SaveEvent)
                  /\ \A i \in 1..Len(tr) :
                        i > Position(tr, SaveEvent) => tr[i] \notin WriteEvents
            /\ pc[r] = "done" =>
                  /\ \A e \in WriteEvents \cup {DistanceEvent} : Count(tr, e) = 1
                  /\ Cardinality({p \in DOMAIN files :
                                    \E i \in 1..Len(files[p]) : files[p][i].by = r}) = 5
            /\ \A p \in DOMAIN files :
                  Cardinality({i \in 1..Len(files[p]) : files[p][i].by = r}) <= 1

C7_Witness ==
    \E r \in Runs : pc[r] = "done" /\ Len(stdout[r]) > 0

\* C8: no two runs have the same output directory, every run's directory was
\* created by that run, and no file is written by more than one run.
C8_UniqueDirectories ==
    /\ \A r1, r2 \in Runs :
          (r1 # r2 /\ outputDir[r1] # <<>> /\ outputDir[r2] # <<>>) =>
              outputDir[r1] # outputDir[r2]
    /\ \A r \in Runs : ~Occurs(trace[r], Event("existsSync", "outputDir"))
    /\ \A p \in DOMAIN files : \A i, j \in 1..Len(files[p]) :
          files[p][i].by = files[p][j].by

\* C9: every persisted report says faceDetected for both images, names a crop
\* file for both, and gives as each image's coordinates the rectangle that the
\* same run cropped out of that image into that file.
C9_ReportComplete ==
    \A p \in DOMAIN files : \A i \in 1..Len(files[p]) :
        IsReport(files[p][i]) =>
            LET r == files[p][i].by
                report == files[p][i].data
                Cropped(name, section) ==
                    LET path == pathJoin(outputDir[r], section.faceFile)
                    IN  /\ path \in DOMAIN files
                        /\ \E j \in 1..Len(files[path]) :
                              files[path][j] =
                                  [by |-> r, kind |-> "crop", complete |-> TRUE,
                                   data |-> [image |-> name,
                                             region |-> section.coordinates]]
            IN  /\ report.referenceImage.faceDetected = TRUE
                /\ report.queryImage.faceDetected = TRUE
                /\ report.referenceImage.faceFile # ""
                /\ report.queryImage.faceFile # ""
                /\ report.referenceImage.faceFile # report.queryImage.faceFile
                /\ Cropped("reference", report.referenceImage)
                /\ Cropped("query", report.queryImage)

\* a persisted report whose reference crop was cut back at the image's edge
C9_Witness ==
    \E p \in DOMAIN files : \E i \in 1..Len(files[p]) :
        /\ IsReport(files[p][i])
        /\ files[p][i].data.referenceImage.coordinates
              = [x |-> 1, y |-> 0, width |-> 2, height |-> 1]

\* C10: every persisted report has status VERIFIED when isMatch is true and
\* REJECTED when it is false, and the last line a completed run prints is the
\* status in the report that run persisted.
C10_VerdictConsistent ==
    /\ \A p \in DOMAIN files : \A i \in 1..Len(files[p]) :
          IsReport(files[p][i]) =>
              LET res == files[p][i].data.result
              IN  /\ res.isMatch => res.status = "VERIFIED"
                  /\ ~res.isMatch => res.status = "REJECTED"
    /\ \A r \in Runs : pc[r] = "done" =>
          /\ \E p \in DOMAIN files : \E i \in 1..Len(files[p]) :
                IsReport(files[p][i]) /\ files[p][i].by = r
          /\ \A p \in DOMAIN files : \A i \in 1..Len(files[p]) :
                (IsReport(files[p][i]) /\ files[p][i].by = r) =>
                    Last(stdout[r]).text = files[p][i].data.result.status

\* one run ended VERIFIED and the other REJECTED
C10_Witness ==
    \E r1, r2 \in Runs :
        /\ pc[r1] = "done" /\ Last(stdout[r1]).text = "VERIFIED"
        /\ pc[r2] = "done" /\ Last(stdout[r2]).text = "REJECTED"

\* z1 <= z2 for two zoom factors <<num, den>>
ZoomLe(z1, z2) == z1[1] * z2[2] <= z2[1] * z1[2]

\* the enlargement of a box of origin o and size w (in 1/Sub pixel) by the
\* zoom factor z meets a bound of an image of size dim (in pixels): its origin
\* would be negative, or its extent is capped.  Both sides are scaled by
\* 2 * den.
ClampedAxis(o, w, z, dim) ==
    LET origin == o * 2 * z[2] - w * z[1]
    IN  \/ origin < 0
        \/ w * 2 * z[2] + w * z[1] * 2 > dim * Sub * 2 * z[2] - Max(0, origin)

\* C11: for a fixed box and image size and zoom factors z1 <= z2, the width
\* returned for z2 is at least the width returned for z1 unless the
\* enlargement by z1 is clamped by the image bounds on the x axis, and the
\* same for the height and the y axis.
C11_BoxMonotone ==
    Computed(gOut) =>
        \A z2 \in Zooms : ZoomLe(gIn.zoomFactor, z2) =>
            LET out2 == calculateZoomedOutBox(gIn.box, z2,
                                              gIn.imageWidth, gIn.imageHeight)
            IN  /\ ~ClampedAxis(gIn.box.x, gIn.box.width, gIn.zoomFactor,
                                gIn.imageWidth) => out2.width >= gOut.width
                /\ ~ClampedAxis(gIn.box.y, gIn.box.height, gIn.zoomFactor,
                                gIn.imageHeight) => out2.height >= gOut.height

\* an enlargement by 0.3 that no bound clamps, and a larger zoom factor for
\* which the returned box is strictly wider and higher
C11_Witness ==
    /\ Computed(gOut)
    /\ gIn.zoomFactor = zoomOutFactor
    /\ gIn.box.width > 0 /\ gIn.box.height > 0
    /\ ~ClampedAxis(gIn.box.x, gIn.box.width, gIn.zoomFactor, gIn.imageWidth)
    /\ ~ClampedAxis(gIn.box.y, gIn.box.height, gIn.zoomFactor, gIn.imageHeight)
    /\ \E z2 \in Zooms :
          LET out2 == calculateZoomedOutBox(gIn.box, z2,
                                            gIn.imageWidth, gIn.imageHeight)
          IN  /\ ZoomLe(gIn.zoomFactor, z2)
              /\ out2.width > gOut.width
              /\ out2.height > gOut.height

\* C12: a run whose drawFaceDetection threw, for either image, is not aborted
\* by it: it does not end in the failed state.
C12_OverlayFailureNotFatal ==
    \A r \in Runs :
        Occurs(trace[r], Event("throw", "drawFaceDetection")) => pc[r] # "failed"

\* the far edge of the centered enlargement of [o, o + w] by z, capped at the
\* image dimension and truncated: floor(min(dim, o + w + w * z / 2))
CenteredFarEdge(o, w, z, dim) ==
    Min(dim * Sub * 2 * z[2], (o + w) * 2 * z[2] + w * z[1]) \div (Sub * 2 * z[2])

\* C13: for a box whose origin is inside the image, when
\* x - width * zoomFactor / 2 < 0 the returned x is 0 and the returned
\* x + width is the far edge of the centered enlargement,
\* floor(min(imageWidth, x + width + width * zoomFactor / 2)); the same on
\* the y axis.
C13_OriginTruncates ==
    (Computed(gOut) /\ gIn.box.x >= 0 /\ gIn.box.y >= 0) =>
        /\ gIn.box.x * 2 * gIn.zoomFactor[2] - gIn.box.width * gIn.zoomFactor[1] < 0 =>
              /\ gOut.x = 0
              /\ gOut.x + gOut.width =
                    CenteredFarEdge(gIn.box.x, gIn.box.width, gIn.zoomFactor,
                                    gIn.imageWidth)
        /\ gIn.box.y * 2 * gIn.zoomFactor[2] - gIn.box.height * gIn.zoomFactor[1] < 0 =>
              /\ gOut.y = 0
              /\ gOut.y + gOut.height =
                    CenteredFarEdge(gIn.box.y, gIn.box.height, gIn.zoomFactor,
                                    gIn.imageHeight)

ThrowCount(tr) == Cardinality({i \in 1..Len(tr) : tr[i].op = "throw"})
PassedInputs(tr) ==
    /\ Occurs(tr, Event("existsSync", "reference"))
    /\ Occurs(tr, Event("existsSync", "query"))
    /\ Occurs(tr, Event("loadImage", "reference"))
    /\ Occurs(tr, Event("loadImage", "query"))
    /\ Occurs(tr, Event("detectSingleFace", "reference"))
    /\ Occurs(tr, Event("detectSingleFace", "query"))

\* the part of C14 that is about states: a failed run has surfaced exactly one
\* error, from exactly one throw, which was its last step; a run stopped by
\* the reference file has not looked at the query file; a run stopped by the
\* query file had found the reference file; a run stopped by a face or score
\* check had found, decoded and searched both images.
C14_StatePart ==
    \A r \in Runs :
        /\ pc[r] = "failed" =>
              /\ Len(stderr[r]) = 1
              /\ ThrowCount(trace[r]) = 1
              /\ Last(trace[r]).op = "throw"
        /\ pc[r] \notin {"failed", "exited"} =>
              /\ stderr[r] = <<>>
              /\ ThrowCount(trace[r]) = 0
        /\ FailedWith(r, [text |-> "Reference image not found"]) =>
              ~Occurs(trace[r], Event("existsSync", "query"))
        /\ FailedWith(r, [text |-> "Query image not found"]) =>
              /\ Occurs(trace[r], Event("existsSync", "reference"))
              /\ ~Occurs(trace[r], Event("loadImage", "reference"))
        /\ (pc[r] = "failed" /\ Last(trace[r]) = Event("throw", "gates")) =>
              PassedInputs(trace[r])

\* C14: the error of a run stopped at the face and score checks is that of the
\* first failing check in the order reference face detected, query face
\* detected, reference score, query score, whatever later checks would fail
\* too (a low reference score with no face in the query image is reported as
\* no face in the query image); the file checks come before them, reference
\* first; and a failed run surfaces exactly one error.
C14_FirstFailingGate ==
    /\ [][\A r \in Runs : GatesStep(r) =>
            LET ref == mem[r].referenceResult
                qry == mem[r].queryResult
                Fails(k) ==
                    CASE k = 1 -> ref = Undefined
                      [] k = 2 -> qry = Undefined
                      [] k = 3 -> ref # Undefined /\ ref.detection.score < faceQuality
                      [] k = 4 -> qry # Undefined /\ qry.detection.score < faceQuality
                ErrorOf(k) ==
                    CASE k = 1 -> NoFace("reference")
                      [] k = 2 -> NoFace("query")
                      [] k = 3 -> LowScore("reference", ref.detection.score)
                      [] k = 4 -> LowScore("query", qry.detection.score)
                failing == {k \in 1..4 : Fails(k)}
            IN  IF failing = {}
                THEN pc'[r] = "distance" /\ stderr'[r] = <<>>
                ELSE /\ pc'[r] = "failed"
                     /\ stderr'[r] = <<ErrorOf(SetMin(failing))>>]_vars
    /\ []C14_StatePart

\* a run whose reference score is low and whose query image has no face,
\* stopped with the query's no-face error
C14_Witness ==
    \E r \in Runs :
        /\ FailedWith(r, NoFace("query"))
        /\ mem[r].referenceResult # Undefined
        /\ mem[r].referenceResult.detection.score < faceQuality
        /\ mem[r].queryResult = Undefined

GateFailures ==
    {"Reference image not found", "Query image not found",
     "Could not detect a face", "Low detection score"}

\* C15: a run that failed at a file check, a face check or a score check has
\* written no file, and its output directory exists and holds no file.
C15_NoArtifactOnGateFailure ==
    \A r \in Runs :
        (pc[r] = "failed" /\ Len(stderr[r]) > 0
           /\ Last(stderr[r]).text \in GateFailures) =>
            /\ outputDir[r] \in dirs
            /\ \A p \in DOMAIN files : \A i \in 1..Len(files[p]) : files[p][i].by # r
            /\ \A p \in DOMAIN files : p[1] # outputDir[r]

\* a box with whole-pixel x, y >= 0 and width, height >= 1 inside the image
IntegerBoxInside(box, imageWidth, imageHeight) ==
    /\ box.x % Sub = 0 /\ box.y % Sub = 0
    /\ box.width % Sub = 0 /\ box.height % Sub = 0
    /\ box.x >= 0 /\ box.y >= 0
    /\ box.width >= Sub /\ box.height >= Sub
    /\ box.x + box.width <= imageWidth * Sub
    /\ box.y + box.height <= imageHeight * Sub

\* C16 as stated: for such a box and every zoom factor >= 0 the returned
\* rectangle contains the box and has width >= 1 and height >= 1.
C16_AsStated ==
    (Computed(gOut) /\ IntegerBoxInside(gIn.box, gIn.imageWidth, gIn.imageHeight)) =>
        /\ gOut.x <= gIn.box.x \div Sub
        /\ gOut.y <= gIn.box.y \div Sub
        /\ gOut.x + gOut.width >= (gIn.box.x + gIn.box.width) \div Sub
        /\ gOut.y + gOut.height >= (gIn.box.y + gIn.box.height) \div Sub
        /\ gOut.width >= 1
        /\ gOut.height >= 1

\* C16 amended: for such a box and every zoom factor >= 0 the returned
\* rectangle starts at or before the box on both axes, has width >= 1 and
\* height >= 1, and ends at most one pixel short of the box's far edge on
\* each axis (origin and size are truncated separately).
C16_CropCoversFace ==
    (Computed(gOut) /\ IntegerBoxInside(gIn.box, gIn.imageWidth, gIn.imageHeight)) =>
        /\ gOut.x <= gIn.box.x \div Sub
        /\ gOut.y <= gIn.box.y \div Sub
        /\ gOut.x + gOut.width >= (gIn.box.x + gIn.box.width) \div Sub - 1
        /\ gOut.y + gOut.height >= (gIn.box.y + gIn.box.height) \div Sub - 1
        /\ gOut.width >= 1
        /\ gOut.height >= 1

\* a one-pixel box enlarged by 0.3 whose crop starts one pixel before it and
\* ends one pixel short of its right edge
C16_Witness ==
    /\ Computed(gOut)
    /\ IntegerBoxInside(gIn.box, gIn.imageWidth, gIn.imageHeight)
    /\ gIn.zoomFactor = zoomOutFactor
    /\ gOut.x = gIn.box.x \div Sub - 1
    /\ gOut.x + gOut.width = (gIn.box.x + gIn.box.width) \div Sub - 1

\* C17: in the result block of a report, whatever the distance and the
\* positive threshold, isMatch (runVerification) is true exactly when
\* confidence (generateVerificationReport) is above 0.
C17_MatchIffConfidence ==
    Computed(dOut) => (dOut.isMatch <=> dOut.confidence > 0)

\* the largest distance below the threshold 0.6: a match with a confidence
\* above 0, and the threshold itself: no match, confidence 0
C17_Witness ==
    /\ Computed(dOut)
    /\ dIn.threshold = distanceThreshold
    /\ dIn.faceDistance = SetMax({f \in FloatVals : f < distanceThreshold})
    /\ dOut.isMatch
    /\ dOut.confidence > 0
    /\ dOut.confidence < One

=============================================================================
